---- MODULE Spec2Model ----
(***************************************************************************)
(* Model of template_uv_mcp_server/server.py: one FastMCP server object,   *)
(* three decorator registrations executed at module load (tool `hello`,    *)
(* resource `template://info`, prompt `greeting_prompt`), the entry point  *)
(* main(), and the client sessions that the tests (in-memory transport) or *)
(* the running server (host transport) serve.                              *)
(***************************************************************************)
EXTENDS Integers, Sequences, FiniteSets, TLC

\* ----------------------------------------------------------------- bounds
MaxSessions == 2
MaxRequests == 2
MaxNameLen == 1

\* ------------------------------------------------------------ input sets
Sessions == 1..MaxSessions

Alphabet == {"a"}

RECURSIVE StringsUpTo(_)
StringsUpTo(n) ==
    IF n = 0 THEN {""}
    ELSE StringsUpTo(n - 1) \cup {s \o c : s \in StringsUpTo(n - 1), c \in Alphabet}

\* the names the tests use, plus the empty string and short generated ones
Names == {"World", "Claude", "Alice"} \cup StringsUpTo(MaxNameLen)

\* argument dictionaries: {} or {"name": s}
NoArgs == {}
NameArg(s) == {<<"name", s>>}
ArgDicts == {NoArgs} \cup {NameArg(s) : s \in Names}

InfoUri == "template://info"
ToolNames == {"hello", "unknown_tool"}
PromptNames == {"greeting_prompt", "unknown_prompt"}
Uris == {InfoUri, "template://unknown"}

\* --------------------------------------------- the three plain functions
hello_ignoring_name(name) == "Hello, World!"

hello(name) == "Hello, " \o name \o "!"

get_info_other_text == "This is a template MCP server."

get_info == "This is a template MCP server. Customize it for your needs!"

greeting_prompt_no_period(name) == "Please write a friendly greeting for " \o name

greeting_prompt(name) == "Please write a friendly greeting for " \o name \o "."

\* what a decorator sees of each function: __name__, __doc__, signature
hello_def_no_doc ==
    [name |-> "hello", doc |-> "",
     params |-> <<[name |-> "name", required |-> FALSE, default |-> "World"]>>]

hello_def_no_default ==
    [name |-> "hello", doc |-> "Say hello to someone.",
     params |-> <<[name |-> "name", required |-> TRUE, default |-> ""]>>]

hello_def ==
    [name |-> "hello", doc |-> "Say hello to someone.",
     params |-> <<[name |-> "name", required |-> FALSE, default |-> "World"]>>]

get_info_def_no_doc ==
    [name |-> "get_info", doc |-> "", params |-> <<>>]

get_info_def ==
    [name |-> "get_info", doc |-> "Get template information.", params |-> <<>>]

greeting_prompt_def_defaulted ==
    [name |-> "greeting_prompt", doc |-> "Generate a greeting prompt.",
     params |-> <<[name |-> "name", required |-> FALSE, default |-> "World"]>>]

greeting_prompt_def ==
    [name |-> "greeting_prompt", doc |-> "Generate a greeting prompt.",
     params |-> <<[name |-> "name", required |-> TRUE, default |-> ""]>>]

\* ------------------------------------------------------------------ state
VARIABLES
    importer,    \* "script": run through main(); "tests": imported by the tests
    pc,          \* position in the module body / entry point
    mcp,         \* the server object: name and its three registries
    registered,  \* the decorated functions, in the order the decorators ran
    sessions     \* per client session: open?, requests made, last request/response

vars == <<importer, pc, mcp, registered, sessions>>

NoReq == [op |-> "none", name |-> "", args |-> NoArgs]
NoResp == [kind |-> "none"]
Closed == [open |-> FALSE, nreq |-> 0, req |-> NoReq, resp |-> NoResp]
Opened == [open |-> TRUE, nreq |-> 0, req |-> NoReq, resp |-> NoResp]

\* ------------------------------------------------- runtime (the black box)
Error == [kind |-> "error"]

\* a str returned by a tool becomes one text content item
TextResult(t) == [kind |-> "content", items |-> <<[type |-> "text", text |-> t]>>]

\* a str returned by a resource becomes one text contents item
ReadResult(uri, t) == [kind |-> "contents", items |-> <<[uri |-> uri, text |-> t]>>]

\* a str returned by a prompt becomes one user message with text content
PromptResult(t) ==
    [kind |-> "messages",
     items |-> << [role |-> "user", content |-> [type |-> "text", text |-> t]] >>]

Find(seq, nm) == {i \in DOMAIN seq : seq[i].name = nm}
FindUri(seq, uri) == {i \in DOMAIN seq : seq[i].uri = uri}

HasKey(args, k) == \E p \in args : p[1] = k
ValueOf(args, k) == (CHOOSE p \in args : p[1] = k)[2]

\* every required parameter is supplied, and no unknown key is passed
Bindable(params, args) ==
    /\ \A i \in DOMAIN params : params[i].required => HasKey(args, params[i].name)
    /\ \A p \in args : \E i \in DOMAIN params : params[i].name = p[1]

\* the value a parameter is bound to: the argument, else the default
Bind(param, args) ==
    IF HasKey(args, param.name) THEN ValueOf(args, param.name) ELSE param.default

\* calling the function object stored in a registry entry
Invoke(fn, params, args) ==
    CASE fn = "hello" -> hello(Bind(params[1], args))
      [] fn = "get_info" -> get_info
      [] fn = "greeting_prompt" -> greeting_prompt(Bind(params[1], args))

ListToolsResult(server) ==
    [kind |-> "tools",
     items |-> [i \in DOMAIN server.tools |->
                  [name |-> server.tools[i].name,
                   description |-> server.tools[i].description]]]

ListResourcesResult(server) ==
    [kind |-> "resources",
     items |-> [i \in DOMAIN server.resources |->
                  [uri |-> server.resources[i].uri,
                   name |-> server.resources[i].name,
                   description |-> server.resources[i].description]]]

ListPromptsResult(server) ==
    [kind |-> "prompts",
     items |-> [i \in DOMAIN server.prompts |->
                  [name |-> server.prompts[i].name,
                   description |-> server.prompts[i].description,
                   arguments |-> [j \in DOMAIN server.prompts[i].params |->
                       [name |-> server.prompts[i].params[j].name,
                        required |-> server.prompts[i].params[j].required]]]]]

CallToolResult(server, nm, args) ==
    IF Find(server.tools, nm) = {} THEN Error
    ELSE LET t == server.tools[CHOOSE i \in Find(server.tools, nm) : TRUE]
         IN IF Bindable(t.params, args)
            THEN TextResult(Invoke(t.fn, t.params, args))
            ELSE Error

ReadResourceResult(server, uri) ==
    IF FindUri(server.resources, uri) = {} THEN Error
    ELSE LET r == server.resources[CHOOSE i \in FindUri(server.resources, uri) : TRUE]
         IN ReadResult(uri, Invoke(r.fn, r.params, NoArgs))

GetPromptResult(server, nm, args) ==
    IF Find(server.prompts, nm) = {} THEN Error
    ELSE LET p == server.prompts[CHOOSE i \in Find(server.prompts, nm) : TRUE]
         IN IF Bindable(p.params, args)
            THEN PromptResult(Invoke(p.fn, p.params, args))
            ELSE Error

\* registry entries built by the decorators from a function definition
ToolEntry(def) ==
    [name |-> def.name, description |-> def.doc, params |-> def.params, fn |-> def.name]
ResourceEntry(uri, def) ==
    [uri |-> uri, name |-> def.name, description |-> def.doc,
     params |-> def.params, fn |-> def.name]
PromptEntry(def) ==
    [name |-> def.name, description |-> def.doc, params |-> def.params, fn |-> def.name]

\* ------------------------------------------------------------------- Init
\* the state right after  mcp = FastMCP("Template Server")
Init ==
    /\ importer \in {"script", "tests"}
    /\ pc = "tool"
    /\ mcp = [name |-> "Template Server", tools |-> <<>>,
              resources |-> <<>>, prompts |-> <<>>]
    /\ registered = <<>>
    /\ sessions = [s \in Sessions |-> Closed]

\* ------------------------------------------------- module body, in order
ToolDecorator ==
    /\ pc = "tool"
    /\ mcp' = [mcp EXCEPT !.tools = Append(@, ToolEntry(hello_def))]
    /\ registered' = Append(registered, "hello")
    /\ pc' = "resource"
    /\ UNCHANGED <<importer, sessions>>

ResourceDecorator ==
    /\ pc = "resource"
    /\ mcp' = [mcp EXCEPT !.resources = Append(@, ResourceEntry(InfoUri, get_info_def))]
    /\ registered' = Append(registered, "get_info")
    /\ pc' = "prompt"
    /\ UNCHANGED <<importer, sessions>>

PromptDecoratorSkipped ==
    /\ pc = "prompt"
    /\ pc' = "loaded"
    /\ UNCHANGED <<importer, mcp, registered, sessions>>

PromptDecorator ==
    /\ pc = "prompt"
    /\ mcp' = [mcp EXCEPT !.prompts = Append(@, PromptEntry(greeting_prompt_def))]
    /\ registered' = Append(registered, "greeting_prompt")
    /\ pc' = "loaded"
    /\ UNCHANGED <<importer, sessions>>

\* if __name__ == "__main__": main()   (or the installed entry point)
main ==
    /\ pc = "loaded"
    /\ importer = "script"
    /\ pc' = "running"
    /\ UNCHANGED <<importer, mcp, registered, sessions>>

\* ---------------------------------------------------------------- sessions
\* a session is served by mcp.run() or by the tests' in-memory bridge, which
\* gets the server object from the fully imported module
Serving ==
    \/ pc = "running"
    \/ pc = "loaded" /\ importer = "tests"

OpenSession(s) ==
    /\ Serving
    /\ ~sessions[s].open
    /\ sessions' = [sessions EXCEPT ![s] = Opened]
    /\ UNCHANGED <<importer, pc, mcp, registered>>

CloseSessionClearing(s) ==
    /\ sessions[s].open
    /\ sessions' = [sessions EXCEPT ![s] = Closed]
    /\ mcp' = [mcp EXCEPT !.tools = <<>>]
    /\ UNCHANGED <<importer, pc, registered>>

CloseSession(s) ==
    /\ sessions[s].open
    /\ sessions' = [sessions EXCEPT ![s] = Closed]
    /\ UNCHANGED <<importer, pc, mcp, registered>>

CanRequest(s) == sessions[s].open /\ sessions[s].nreq < MaxRequests

Answer(s, req, resp) ==
    /\ sessions' = [sessions EXCEPT ![s] =
                      [open |-> TRUE, nreq |-> sessions[s].nreq + 1,
                       req |-> req, resp |-> resp]]
    /\ UNCHANGED <<importer, pc, mcp, registered>>

ListTools(s) ==
    /\ CanRequest(s)
    /\ Answer(s, [op |-> "list_tools", name |-> "", args |-> NoArgs],
              ListToolsResult(mcp))

CallToolCached(s, nm, args) ==
    /\ CanRequest(s)
    /\ Answer(s, [op |-> "call_tool", name |-> nm, args |-> args],
              IF sessions[s].req.op = "call_tool" THEN sessions[s].resp
              ELSE CallToolResult(mcp, nm, args))

CallTool(s, nm, args) ==
    /\ CanRequest(s)
    /\ Answer(s, [op |-> "call_tool", name |-> nm, args |-> args],
              CallToolResult(mcp, nm, args))

ListResources(s) ==
    /\ CanRequest(s)
    /\ Answer(s, [op |-> "list_resources", name |-> "", args |-> NoArgs],
              ListResourcesResult(mcp))

ReadResource(s, uri) ==
    /\ CanRequest(s)
    /\ Answer(s, [op |-> "read_resource", name |-> uri, args |-> NoArgs],
              ReadResourceResult(mcp, uri))

ListPrompts(s) ==
    /\ CanRequest(s)
    /\ Answer(s, [op |-> "list_prompts", name |-> "", args |-> NoArgs],
              ListPromptsResult(mcp))

GetPrompt(s, nm, args) ==
    /\ CanRequest(s)
    /\ Answer(s, [op |-> "get_prompt", name |-> nm, args |-> args],
              GetPromptResult(mcp, nm, args))

Next ==
    \/ ToolDecorator
    \/ ResourceDecorator
    \/ PromptDecorator
    \/ main
    \/ \E s \in Sessions : OpenSession(s)
    \/ \E s \in Sessions : CloseSession(s)
    \/ \E s \in Sessions : ListTools(s)
    \/ \E s \in Sessions, nm \in ToolNames, args \in ArgDicts : CallTool(s, nm, args)
    \/ \E s \in Sessions : ListResources(s)
    \/ \E s \in Sessions, uri \in Uris : ReadResource(s, uri)
    \/ \E s \in Sessions : ListPrompts(s)
    \/ \E s \in Sessions, nm \in PromptNames, args \in ArgDicts : GetPrompt(s, nm, args)

Spec == Init /\ [][Next]_vars

\* ------------------------------------------------------------- properties
Req(s) == sessions[s].req
Resp(s) == sessions[s].resp

CallHello(args) == [op |-> "call_tool", name |-> "hello", args |-> args]
ReadInfo == [op |-> "read_resource", name |-> InfoUri, args |-> NoArgs]
GetGreeting(args) == [op |-> "get_prompt", name |-> "greeting_prompt", args |-> args]

OneText(resp, t) ==
    /\ resp.kind = "content"
    /\ Len(resp.items) = 1
    /\ resp.items[1].type = "text"
    /\ resp.items[1].text = t

OneUserMessage(resp, t) ==
    /\ resp.kind = "messages"
    /\ Len(resp.items) = 1
    /\ resp.items[1].role = "user"
    /\ resp.items[1].content.type = "text"
    /\ resp.items[1].content.text = t

\* C1: calling tool `hello` with {"name": s} returns exactly one text content
\* item with text "Hello, " + s + "!", and with {} exactly one text content
\* item with text "Hello, World!".
C1_HelloResult ==
    \A s \in Sessions :
        /\ \A n \in Names :
             Req(s) = CallHello(NameArg(n)) => OneText(Resp(s), "Hello, " \o n \o "!")
        /\ Req(s) = CallHello(NoArgs) => OneText(Resp(s), "Hello, World!")

C1_Witness ==
    \E s1, s2 \in Sessions :
        /\ Req(s1) = CallHello(NameArg("Claude"))
        /\ Resp(s1).items[1].text = "Hello, Claude!"
        /\ Req(s2) = CallHello(NoArgs)
        /\ Resp(s2).items[1].text = "Hello, World!"

\* C2: getting prompt `greeting_prompt` with {"name": s} returns exactly one
\* message, of role "user", whose content is the text
\* "Please write a friendly greeting for " + s + ".".
C2_GreetingPromptResult ==
    \A s \in Sessions : \A n \in Names :
        Req(s) = GetGreeting(NameArg(n)) =>
            OneUserMessage(Resp(s), "Please write a friendly greeting for " \o n \o ".")

C2_Witness ==
    \E s \in Sessions :
        /\ Req(s) = GetGreeting(NameArg("Alice"))
        /\ Resp(s).items[1].content.text = "Please write a friendly greeting for Alice."

\* a step in which session s is answered a read of template://info
ReadInfoStep(s) ==
    /\ sessions'[s] # sessions[s]
    /\ sessions'[s].req = ReadInfo

\* C3: every read of template://info returns exactly one content item with
\* the fixed text, whatever happened before in any session, and a read step
\* leaves the registered tools, resources and prompts unchanged.
C3_ReadInfoFixedAndPure ==
    /\ [](\A s \in Sessions :
            Req(s) = ReadInfo =>
                /\ Resp(s).kind = "contents"
                /\ Len(Resp(s).items) = 1
                /\ Resp(s).items[1].text =
                     "This is a template MCP server. Customize it for your needs!")
    /\ [][\A s \in Sessions :
            ReadInfoStep(s) => mcp' = mcp /\ registered' = registered]_vars

\* two sessions hold the answer to a read, one of them after an earlier request
C3_Witness ==
    \E s1, s2 \in Sessions :
        /\ s1 # s2
        /\ Req(s1) = ReadInfo /\ Req(s2) = ReadInfo
        /\ sessions[s1].nreq = 1 /\ sessions[s2].nreq = 2
        /\ Resp(s1) = Resp(s2)
        /\ Resp(s1).kind = "contents"

\* C4: every tools listing contains exactly one tool named `hello`, and its
\* description is "Say hello to someone.".
C4_ListToolsHello ==
    \A s \in Sessions :
        Req(s).op = "list_tools" =>
            /\ Resp(s).kind = "tools"
            /\ Cardinality(Find(Resp(s).items, "hello")) = 1
            /\ \A i \in Find(Resp(s).items, "hello") :
                 Resp(s).items[i].description = "Say hello to someone."

C4_Witness ==
    \E s \in Sessions :
        /\ Req(s).op = "list_tools"
        /\ Find(Resp(s).items, "hello") # {}

\* C5: every prompts listing contains `greeting_prompt` with description
\* "Generate a greeting prompt." and exactly one argument, named `name` and
\* marked required.
C5_ListPromptsGreeting ==
    \A s \in Sessions :
        Req(s).op = "list_prompts" =>
            /\ Resp(s).kind = "prompts"
            /\ \E i \in Find(Resp(s).items, "greeting_prompt") :
                 /\ Resp(s).items[i].description = "Generate a greeting prompt."
                 /\ Len(Resp(s).items[i].arguments) = 1
                 /\ Resp(s).items[i].arguments[1].name = "name"
                 /\ Resp(s).items[i].arguments[1].required = TRUE

C5_Witness ==
    \E s \in Sessions :
        /\ Req(s).op = "list_prompts"
        /\ Find(Resp(s).items, "greeting_prompt") # {}

\* C6: every resources listing contains a resource with URI template://info
\* whose description is "Get template information.".
C6_ListResourcesInfo ==
    \A s \in Sessions :
        Req(s).op = "list_resources" =>
            /\ Resp(s).kind = "resources"
            /\ FindUri(Resp(s).items, InfoUri) # {}
            /\ \A i \in FindUri(Resp(s).items, InfoUri) :
                 Resp(s).items[i].description = "Get template information."

C6_Witness ==
    \E s \in Sessions :
        /\ Req(s).op = "list_resources"
        /\ FindUri(Resp(s).items, InfoUri) # {}

\* requests inside the declared input domain of the three functions
InDomain(req) ==
    \/ \E a \in ArgDicts : req = CallHello(a)
    \/ req = ReadInfo
    \/ \E n \in Names : req = GetGreeting(NameArg(n))

\* C7: hello (any name, or name omitted), get_info and greeting_prompt (any
\* name) never produce an error outcome, and hello with name omitted yields
\* the same result as hello with {"name": "World"}.
C7_TotalAndDefault ==
    /\ \A s \in Sessions : InDomain(Req(s)) => Resp(s).kind \notin {"error", "none"}
    /\ \A s1, s2 \in Sessions :
         (Req(s1) = CallHello(NoArgs) /\ Req(s2) = CallHello(NameArg("World")))
             => Resp(s1) = Resp(s2)

C7_Witness ==
    \E s1, s2 \in Sessions :
        /\ Req(s1) = CallHello(NoArgs)
        /\ Req(s2) = CallHello(NameArg("World"))
        /\ Resp(s1).kind = "content"
        /\ Resp(s2).kind = "content"

Occurrences(f) == Cardinality({i \in DOMAIN registered : registered[i] = f})

AllBound ==
    /\ Find(mcp.tools, "hello") # {}
    /\ FindUri(mcp.resources, InfoUri) # {}
    /\ Find(mcp.prompts, "greeting_prompt") # {}

\* C8: each of the three registrations happens exactly once and before the
\* server is run; no session is ever open, and no request is ever answered,
\* while any of the three bindings is missing.
C8_RegisteredBeforeServing ==
    /\ \A f \in {"hello", "get_info", "greeting_prompt"} : Occurrences(f) <= 1
    /\ (pc = "running" \/ \E s \in Sessions : sessions[s].open) =>
          /\ \A f \in {"hello", "get_info", "greeting_prompt"} : Occurrences(f) = 1
          /\ AllBound

C8_Witness ==
    /\ pc = "running"
    /\ \E s \in Sessions : Req(s) = GetGreeting(NameArg("Alice")) /\ Resp(s).kind = "messages"

Loaded == pc \in {"loaded", "running"}

\* C9: once the module is loaded the registry is exactly tool `hello`,
\* resource template://info and prompt `greeting_prompt`, with their
\* descriptions and argument specs, and no session operation (open, close,
\* list, call, read, get) changes it.
C9_RegistryFrame ==
    /\ [](Loaded =>
            /\ ListToolsResult(mcp).items =
                 <<[name |-> "hello", description |-> "Say hello to someone."]>>
            /\ [i \in DOMAIN mcp.tools |-> mcp.tools[i].params] =
                 << <<[name |-> "name", required |-> FALSE, default |-> "World"]>> >>
            /\ ListResourcesResult(mcp).items =
                 <<[uri |-> "template://info", name |-> "get_info",
                    description |-> "Get template information."]>>
            /\ ListPromptsResult(mcp).items =
                 <<[name |-> "greeting_prompt",
                    description |-> "Generate a greeting prompt.",
                    arguments |-> <<[name |-> "name", required |-> TRUE]>>]>>)
    /\ [][Loaded => mcp' = mcp /\ registered' = registered]_vars

\* one session used up its requests while another one is closed
C9_Witness ==
    /\ Loaded
    /\ \E s1, s2 \in Sessions :
         /\ sessions[s1].nreq = MaxRequests
         /\ ~sessions[s2].open
    /\ Len(mcp.tools) = 1 /\ Len(mcp.resources) = 1 /\ Len(mcp.prompts) = 1

\* C10: two sessions that issued the same operation with the same arguments
\* hold the same result, whatever either session did before.
C10_SessionIndependent ==
    \A s1, s2 \in Sessions :
        (Req(s1) = Req(s2) /\ Req(s1).op # "none") => Resp(s1) = Resp(s2)

\* the same call answered as a first request in one session and as a later
\* request, after a different call, in the other
C10_Witness ==
    \E s1, s2 \in Sessions :
        /\ s1 # s2
        /\ Req(s1) = CallHello(NameArg("Alice"))
        /\ Req(s2) = Req(s1)
        /\ sessions[s1].nreq = 1
        /\ sessions[s2].nreq = 2
        /\ Resp(s1) = Resp(s2)

====
